---- MODULE Spec2Model ----
(***************************************************************************)
(* Data Flow Analyzer (src/main.py): an HTTP service with five endpoints.  *)
(* GET / and GET /health return constants, POST /stats and POST /analyze   *)
(* reduce lists of numbers, POST /forecast/arima fits an ARIMA model and   *)
(* forecasts.  The module keeps no state of its own between requests; the  *)
(* variables below are the exchange being answered, the library calls the  *)
(* handler made for it, the exchanges answered so far, and what the        *)
(* forecasting library has been seen to do on each input.                  *)
(*                                                                         *)
(* Numbers.  Request values are integers standing for the floats of the   *)
(* same value; a mean or a median is the exact fraction num/den in lowest  *)
(* terms, a standard deviation is the square root of such a fraction, kept *)
(* as its radicand, and 0/0 is NaN.                                        *)
(***************************************************************************)
EXTENDS Integers, Sequences, FiniteSets, TLC

VARIABLES request, response, calls, log, lib

vars == <<request, response, calls, log, lib>>

(***************************************************************************)
(* Bounds of the model.                                                    *)
(***************************************************************************)
\* exchanges answered in one behaviour of Spec
MaxLog == 2
\* exchanges answered in one behaviour of HistorySpec
MaxHistory == 3
\* longest list of values posted to /stats in StatsSpec
MaxLen == 4
\* longest list of items posted to /analyze in StatsSpec
MaxItems == 3

(***************************************************************************)
(* Program constants.                                                      *)
(***************************************************************************)
\* main.py:112  if len(request.values) < 10
MinValues == 10
\* main.py:26   steps: int = 10
DefaultSteps == 10
\* main.py:25   order: tuple[int, int, int] = (1, 1, 1)
DefaultOrder == <<1, 1, 1>>

(***************************************************************************)
(* Exact arithmetic for the reductions.                                    *)
(***************************************************************************)
Abs(x) == IF x < 0 THEN -x ELSE x

RECURSIVE GCD(_, _)
GCD(a, b) == IF b = 0 THEN a ELSE GCD(b, a % b)

\* n/d in lowest terms, d > 0
Frac(n, d) == LET g == GCD(Abs(n), d) IN [num |-> n \div g, den |-> d \div g]

\* what numpy gives for 0/0
NaN == [num |-> 0, den |-> 0]

\* the square root of the fraction q (sqrt(NaN) is NaN)
Sqrt(q) == [radicand |-> q]

RECURSIVE SumSeq(_)
SumSeq(s) == IF s = <<>> THEN 0 ELSE Head(s) + SumSeq(Tail(s))

RECURSIVE SumSquares(_)
SumSquares(s) == IF s = <<>> THEN 0 ELSE Head(s) * Head(s) + SumSquares(Tail(s))

RECURSIVE Insert(_, _)
Insert(x, s) ==
    IF s = <<>> THEN <<x>>
    ELSE IF x <= Head(s) THEN <<x>> \o s
    ELSE <<Head(s)>> \o Insert(x, Tail(s))

RECURSIVE Sorted(_)
Sorted(s) == IF s = <<>> THEN <<>> ELSE Insert(Head(s), Sorted(Tail(s)))

\* np.mean: the sum over the length, nan for an empty array
Mean(arr) ==
    IF Len(arr) = 0 THEN NaN ELSE Frac(SumSeq(arr), Len(arr))

\* a median that forgets to sort the values
MedianUnsorted(arr) ==
    LET n == Len(arr) IN
    IF n = 0 THEN NaN
    ELSE IF n % 2 = 1 THEN Frac(arr[(n + 1) \div 2], 1)
    ELSE Frac(arr[n \div 2] + arr[n \div 2 + 1], 2)

\* np.median: the middle of the sorted array, the mean of the two middle
\* elements for an even length, nan for an empty array
Median(arr) ==
    LET n == Len(arr)
        s == Sorted(arr)
    IN  IF n = 0 THEN NaN
        ELSE IF n % 2 = 1 THEN Frac(s[(n + 1) \div 2], 1)
        ELSE Frac(s[n \div 2] + s[n \div 2 + 1], 2)

\* np.std with ddof = 0: sqrt(mean(|x - mean|^2)), and
\* mean((x - mean)^2) = (n * sum(x^2) - sum(x)^2) / n^2
Std(arr) ==
    LET n == Len(arr) IN
    IF n = 0 THEN Sqrt(NaN)
    ELSE Sqrt(Frac(n * SumSquares(arr) - SumSeq(arr) * SumSeq(arr), n * n))

(***************************************************************************)
(* What a handler does: return a value, raise HTTPException, or let some   *)
(* other exception escape.                                                 *)
(***************************************************************************)
Return(v) == [kind |-> "return", value |-> v]

RaiseHTTP(code, text) ==
    [kind |-> "HTTPException", status_code |-> code, detail |-> text]

RaiseOther(e) == [kind |-> "exception", exc |-> e]

\* a DataStats holding a NaN
HasNaN(v) == v.mean = NaN \/ v.median = NaN \/ v.std = Sqrt(NaN)

\* JSON has no NaN: where the encoder accepts one it writes null
JsonNumber(q) == IF q = NaN \/ q = Sqrt(NaN) THEN [null |-> TRUE] ELSE q

\* The HTTP responses the framework can make of a handler's outcome.  A
\* returned value is sent with status 200, an HTTPException with its own
\* status and {"detail": ...}, any other exception as 500 Internal Server
\* Error.  A DataStats holding NaN is either sent with nulls or fails to
\* encode (500), depending on the installed framework version.
Render(result, stats) ==
    IF result.kind = "return" THEN
        IF stats /\ HasNaN(result.value)
        THEN { [status |-> 200,
                body |-> [mean |-> JsonNumber(result.value.mean),
                          median |-> JsonNumber(result.value.median),
                          std |-> JsonNumber(result.value.std),
                          count |-> result.value.count]],
               [status |-> 500, body |-> [text |-> "Internal Server Error"]] }
        ELSE { [status |-> 200, body |-> result.value] }
    ELSE IF result.kind = "HTTPException" THEN
        { [status |-> result.status_code, body |-> [detail |-> result.detail]] }
    ELSE { [status |-> 500, body |-> [text |-> "Internal Server Error"]] }

(***************************************************************************)
(* GET / and GET /health                                                   *)
(***************************************************************************)
root ==
    Return([message |-> "Welcome to Data Flow Analyzer API",
            version |-> "1.0.0",
            endpoints |-> <<"/", "/health", "/analyze", "/stats", "/forecast/arima">>])

health_check == Return([status |-> "healthy"])

(***************************************************************************)
(* POST /stats                                                             *)
(***************************************************************************)
calculate_stats(values) ==
    LET arr == values IN
    Return([mean |-> Mean(arr),
            median |-> Median(arr),
            std |-> Std(arr),
            count |-> Len(arr)])

(***************************************************************************)
(* POST /analyze                                                           *)
(***************************************************************************)
\* df["category"].unique()
Categories(items) == { items[i].category : i \in DOMAIN items }

\* a selection that takes every row, whatever its category
AllValues(items, category) == [i \in DOMAIN items |-> items[i].value]

\* df[df["category"] == category]["value"]
category_data(items, category) ==
    LET rows == SelectSeq(items, LAMBDA item : item.category = category)
    IN  [i \in DOMAIN rows |-> rows[i].value]

analyze_data(items) ==
    IF items = <<>>
    THEN \* a DataFrame of no rows has no "category" column
         RaiseOther("KeyError: 'category'")
    ELSE Return([analysis |->
            [category \in Categories(items) |->
                LET data == category_data(items, category) IN
                [mean |-> Mean(data),
                 median |-> Median(data),
                 std |-> Std(data),
                 count |-> Len(data),
                 sum |-> SumSeq(data)]]])

(***************************************************************************)
(* The forecasting library (statsmodels' ARIMA), an external collaborator. *)
(* Its numerics are not modelled: a forecast point is the term "h-th       *)
(* point forecast of the model of this order fitted to this series".       *)
(* Whether the library fails on a given input for reasons of the data is   *)
(* its own business; stage names what it does on one input: "none" (it     *)
(* succeeds) or the call that raises.                                      *)
(***************************************************************************)
Stages == {"none", "construct", "fit", "forecast"}

\* str(e) of the exception the library raises at a stage for reasons of the data
DataErrorMsg(stage) ==
    IF stage = "construct" THEN "endog is not usable"
    ELSE IF stage = "fit" THEN "LU decomposition error."
    ELSE "forecast is not finite"

NegativeOrder(order) == \E i \in 1..3 : order[i] < 0

\* the library's refusal of an order with a negative component
NegativeOrderMsg(order) ==
    IF order[1] < 0 THEN "Terms in the AR order cannot be negative."
    ELSE IF order[2] < 0 THEN "Cannot specify negative differencing."
    ELSE "Terms in the MA order cannot be negative."

\* ARIMA(values, order=order): <<>> or <<str(e)>>.  A negative order is refused.
ConstructError(values, order, stage) ==
    IF NegativeOrder(order) THEN <<NegativeOrderMsg(order)>>
    ELSE IF stage = "construct" THEN <<DataErrorMsg(stage)>>
    ELSE <<>>

\* model.fit(): <<>> or <<str(e)>>
FitError(values, order, stage) ==
    IF stage = "fit" THEN <<DataErrorMsg(stage)>> ELSE <<>>

\* model_fit.forecast(steps=steps): <<>> or <<str(e)>>.  The prediction runs
\* from nobs to nobs + steps - 1 and is refused when that range is empty.
ForecastError(values, order, steps, stage) ==
    IF steps < 1 THEN <<"Prediction must have end after start.">>
    ELSE IF stage = "forecast" THEN <<DataErrorMsg(stage)>>
    ELSE <<>>

\* model_fit.forecast(steps=steps): steps point forecasts
Forecast(values, order, steps) ==
    [h \in 1..steps |-> [yhat |-> h, series |-> values, order |-> order]]

\* the stages at which the library may behave differently on this input
LibStages(values, order, steps) ==
    IF NegativeOrder(order) THEN {"none"}
    ELSE IF steps < 1 THEN Stages \ {"forecast"}
    ELSE Stages

(***************************************************************************)
(* POST /forecast/arima                                                    *)
(***************************************************************************)
\* The JSON body: values, and order and steps each given (<<x>>) or left
\* out (<<>>).  ArimaRequest wants a list of numbers, a triple of integers
\* and an integer, and puts no other condition on them.
WellFormed(raw) == raw.order = <<>> \/ Len(raw.order[1]) = 3

\* ArimaRequest: the fields given, and the defaults for those left out
ArimaRequest(raw) ==
    [values |-> raw.values,
     order |-> IF raw.order = <<>> THEN DefaultOrder ELSE raw.order[1],
     steps |-> IF raw.steps = <<>> THEN DefaultSteps ELSE raw.steps[1]]

\* the floor one short of the one the code tests
TooShortOffByOne(values) == Len(values) < MinValues - 1

\* len(request.values) < 10
TooShort(values) == Len(values) < MinValues

RECURSIVE LoggedValues(_)
\* the values of every forecast request answered so far, oldest first
LoggedValues(lg) ==
    IF lg = <<>> THEN <<>>
    ELSE IF Head(lg).request.path = "/forecast/arima" /\ WellFormed(Head(lg).request.body)
         THEN Head(lg).request.body.values \o LoggedValues(Tail(lg))
         ELSE LoggedValues(Tail(lg))

\* a series kept in a module-level buffer that is never cleared
FitSeriesAccumulated(req) == LoggedValues(log) \o req.values

\* the series handed to the library: ARIMA(request.values, ...)
FitSeries(req) == req.values

\* forecast() called without its steps argument (the library's default is 1)
ForecastStepsOmitted(req) == 1

\* the horizon handed to the library: forecast(steps=request.steps)
ForecastSteps(req) == req.steps

\* the default order echoed whatever the request says
ModelOrderDefault(req) == DefaultOrder

\* model_order=request.order
ModelOrder(req) == req.order

\* the underlying message alone
ErrorDetailBare(msg) == msg

\* f"Error in ARIMA model: {str(e)}"
ErrorDetail(msg) == "Error in ARIMA model: " \o msg

\* The body of the try block, given what the library does on this input:
\* the handler's outcome and the library calls made, in order.
TryBlock(req, stage) ==
    LET series == FitSeries(req)
        steps == ForecastSteps(req)
        ce == ConstructError(series, req.order, stage)
        fe == FitError(series, req.order, stage)
        pe == ForecastError(series, req.order, steps, stage)
    IN  IF ce # <<>> THEN
            [result |-> RaiseHTTP(500, ErrorDetail(ce[1])),
             calls |-> <<"ARIMA">>]
        ELSE IF fe # <<>> THEN
            [result |-> RaiseHTTP(500, ErrorDetail(fe[1])),
             calls |-> <<"ARIMA", "fit">>]
        ELSE IF pe # <<>> THEN
            [result |-> RaiseHTTP(500, ErrorDetail(pe[1])),
             calls |-> <<"ARIMA", "fit", "forecast">>]
        ELSE
            [result |-> Return([forecast |-> Forecast(series, req.order, steps),
                                model_order |-> ModelOrder(req)]),
             calls |-> <<"ARIMA", "fit", "forecast">>]

\* the length check moved into the try block, after the model is built:
\* its HTTPException is then caught by "except Exception"
forecast_arima_check_in_try(req, stage) ==
    LET ce == ConstructError(FitSeries(req), req.order, stage) IN
    IF ce # <<>> THEN
        [result |-> RaiseHTTP(500, ErrorDetail(ce[1])), calls |-> <<"ARIMA">>]
    ELSE IF TooShort(req.values) THEN
        [result |-> RaiseHTTP(500,
            ErrorDetail("400: At least 10 values are required for ARIMA.")),
         calls |-> <<"ARIMA">>]
    ELSE TryBlock(req, stage)

forecast_arima(req, stage) ==
    IF TooShort(req.values) THEN
        [result |-> RaiseHTTP(400, "At least 10 values are required for ARIMA."),
         calls |-> <<>>]
    ELSE TryBlock(req, stage)

(***************************************************************************)
(* Requests.                                                               *)
(***************************************************************************)
NoRequest == [method |-> "", path |-> "", body |-> <<>>]

NoResponse == [status |-> 0, body |-> [text |-> ""]]

SeqsUpTo(S, n) == UNION { [1..k -> S] : k \in 0..n }

\* the series 1, 2, ..., n
Ramp(n) == [i \in 1..n |-> i]

\* tests/test_main.py: test_calculate_stats
TestValues == <<1, 2, 3, 4, 5>>

\* tests/test_main.py: test_analyze_data
TestItems ==
    << [name |-> "item1", value |-> 10, category |-> "A"],
       [name |-> "item2", value |-> 20, category |-> "A"],
       [name |-> "item3", value |-> 15, category |-> "B"] >>

\* bodies posted to /forecast/arima: a series one short of the floor and one
\* at it; the order left out, valid, negative, or not a triple; the steps
\* left out, positive, zero or negative
ForecastBodies ==
    [values : {Ramp(MinValues - 1), Ramp(MinValues)},
     order : {<<>>, << <<2, 1, 3>> >>, << <<-1, 0, 0>> >>, << <<1, 1>> >>},
     steps : {<<>>, <<2>>, <<0>>, <<-1>>}]

\* bodies posted to /stats and /analyze in Spec
StatsBodies == {<<>>, TestValues}

AnalyzeBodies == {<<>>, TestItems}

\* bodies posted to /stats and /analyze in StatsSpec
ValueLists == SeqsUpTo({1, 2, 3, 4, 5}, MaxLen) \cup {TestValues}

Items == [name : {"item1", "item2"}, value : {10, 15, 20}, category : {"A", "B"}]

ItemLists == SeqsUpTo(Items, MaxItems) \cup {TestItems}

(***************************************************************************)
(* The service: one action per endpoint, each the whole handler.           *)
(***************************************************************************)
Init ==
    /\ request = NoRequest
    /\ response = NoResponse
    /\ calls = <<>>
    /\ log = <<>>
    /\ lib = <<>>

\* the exchange is answered and recorded
Deliver(req, resp, made) ==
    /\ request' = req
    /\ response' = resp
    /\ calls' = made
    /\ log' = Append(log, [request |-> req, response |-> resp])

GetRoot ==
    /\ \E resp \in Render(root, FALSE) :
          Deliver([method |-> "GET", path |-> "/", body |-> <<>>], resp, <<>>)
    /\ UNCHANGED lib

GetHealth ==
    /\ \E resp \in Render(health_check, FALSE) :
          Deliver([method |-> "GET", path |-> "/health", body |-> <<>>], resp, <<>>)
    /\ UNCHANGED lib

PostStats(values) ==
    /\ \E resp \in Render(calculate_stats(values), TRUE) :
          Deliver([method |-> "POST", path |-> "/stats", body |-> values], resp, <<>>)
    /\ UNCHANGED lib

PostAnalyze(items) ==
    /\ \E resp \in Render(analyze_data(items), FALSE) :
          Deliver([method |-> "POST", path |-> "/analyze", body |-> items], resp, <<>>)
    /\ UNCHANGED lib

\* what the library does on an input is fixed: once seen, it is the same
\* on every later call with that input
Remember(key, stage) ==
    [k \in DOMAIN lib \cup {key} |-> IF k = key THEN stage ELSE lib[k]]

PostForecast(raw) ==
    /\ LET req == [method |-> "POST", path |-> "/forecast/arima", body |-> raw] IN
       IF ~WellFormed(raw) THEN
           \* the body is refused before the handler is called
           /\ Deliver(req, [status |-> 422, body |-> [detail |-> "validation error"]], <<>>)
           /\ UNCHANGED lib
       ELSE
           LET ar == ArimaRequest(raw)
               key == <<FitSeries(ar), ar.order, ForecastSteps(ar)>>
           IN  \E stage \in LibStages(key[1], key[2], key[3]) :
                  /\ key \in DOMAIN lib => stage = lib[key]
                  /\ LET h == forecast_arima(ar, stage) IN
                        /\ \E resp \in Render(h.result, FALSE) :
                              Deliver(req, resp, h.calls)
                        /\ lib' = IF h.calls = <<>> THEN lib ELSE Remember(key, stage)

Next ==
    \/ Len(log) < MaxLog /\ GetRoot
    \/ Len(log) < MaxLog /\ GetHealth
    \/ Len(log) < MaxLog /\ \E values \in StatsBodies : PostStats(values)
    \/ Len(log) < MaxLog /\ \E items \in AnalyzeBodies : PostAnalyze(items)
    \/ Len(log) < MaxLog /\ \E raw \in ForecastBodies : PostForecast(raw)

Spec == Init /\ [][Next]_vars

(***************************************************************************)
(* The same service over longer histories: three exchanges and more, so    *)
(* that requests to any endpoint precede and separate two forecast         *)
(* requests.  The forecast bodies give the order and the steps either      *)
(* explicitly or by leaving them out.                                      *)
(***************************************************************************)
HistoryBodies ==
    [values : {Ramp(MinValues - 1), Ramp(MinValues)},
     order : {<<>>, << <<1, 1, 1>> >>, << <<-1, 0, 0>> >>},
     steps : {<<>>, <<10>>}]

HistoryNext ==
    \/ Len(log) < MaxHistory /\ GetRoot
    \/ Len(log) < MaxHistory /\ GetHealth
    \/ Len(log) < MaxHistory /\ \E values \in StatsBodies : PostStats(values)
    \/ Len(log) < MaxHistory /\ \E items \in AnalyzeBodies : PostAnalyze(items)
    \/ Len(log) < MaxHistory /\ \E raw \in HistoryBodies : PostForecast(raw)

HistorySpec == Init /\ [][HistoryNext]_vars

(***************************************************************************)
(* The two reductions as functions of their input: the input is drawn at   *)
(* the start and the handler applied to it.                                *)
(***************************************************************************)
StatsInit ==
    /\ \/ \E values \in ValueLists :
             request = [method |-> "POST", path |-> "/stats", body |-> values]
       \/ \E items \in ItemLists :
             request = [method |-> "POST", path |-> "/analyze", body |-> items]
    /\ response = NoResponse
    /\ calls = <<>>
    /\ log = <<>>
    /\ lib = <<>>

ApplyStats ==
    /\ request.path = "/stats"
    /\ response = NoResponse
    /\ response' \in Render(calculate_stats(request.body), TRUE)
    /\ UNCHANGED <<request, calls, log, lib>>

ApplyAnalyze ==
    /\ request.path = "/analyze"
    /\ response = NoResponse
    /\ response' \in Render(analyze_data(request.body), FALSE)
    /\ UNCHANGED <<request, calls, log, lib>>

StatsNext == ApplyStats \/ ApplyAnalyze

StatsSpec == StatsInit /\ [][StatsNext]_vars

(***************************************************************************)
(* Properties.                                                             *)
(***************************************************************************)
\* the exchange in hand is a forecast request that reached forecast_arima
Handled == request.path = "/forecast/arima" /\ WellFormed(request.body)

\* the order and steps the handler sees
GivenOrder == IF request.body.order = <<>> THEN <<1, 1, 1>> ELSE request.body.order[1]

GivenSteps == IF request.body.steps = <<>> THEN 10 ELSE request.body.steps[1]

\* C1: a forecast request with fewer than 10 values is answered 400 with the
\* body {"detail": "At least 10 values are required for ARIMA."}, whatever
\* its order and steps.
C1_ShortSeriesRejected ==
    (Handled /\ Len(request.body.values) < 10) =>
        response = [status |-> 400,
                    body |-> [detail |-> "At least 10 values are required for ARIMA."]]

C1_Witness ==
    /\ Handled
    /\ Len(request.body.values) = 9
    /\ request.body.order = << <<-1, 0, 0>> >>
    /\ request.body.steps = <<0>>
    /\ response.status = 400

\* C2: a valid forecast request (at least 10 values, no negative order
\* component, positive steps) answered with success carries a forecast of
\* exactly steps elements.
C2_ForecastLength ==
    ( /\ Handled
      /\ Len(request.body.values) >= 10
      /\ \A i \in 1..3 : GivenOrder[i] >= 0
      /\ GivenSteps > 0
      /\ response.status = 200 ) =>
        Len(response.body.forecast) = GivenSteps

C2_Witness ==
    /\ Handled
    /\ request.body.steps = <<2>>
    /\ response.status = 200
    /\ Len(response.body.forecast) = 2

\* C3: a forecast request answered with success echoes the order of the
\* request, or (1, 1, 1) when the request leaves it out, in model_order.
C3_ModelOrderEchoed ==
    (Handled /\ response.status = 200) => response.body.model_order = GivenOrder

C3_Witness ==
    /\ Handled
    /\ request.body.order = << <<2, 1, 3>> >>
    /\ response.status = 200
    /\ response.body.model_order = <<2, 1, 3>>

\* the message of the first library call that raises for the request in
\* hand, <<>> when none does
LibraryFailure ==
    LET values == request.body.values
        stage == lib[<<values, GivenOrder, GivenSteps>>]
        ce == ConstructError(values, GivenOrder, stage)
        fe == FitError(values, GivenOrder, stage)
        pe == ForecastError(values, GivenOrder, GivenSteps, stage)
    IN  IF ce # <<>> THEN ce ELSE IF fe # <<>> THEN fe ELSE pe

\* C4: with at least 10 values, a failure raised while building the model,
\* fitting it or forecasting is answered 500 with the detail
\* "Error in ARIMA model: " followed by the message of the failure, and in
\* no other form.
C4_LibraryFailureIs500 ==
    (Handled /\ Len(request.body.values) >= 10 /\ LibraryFailure # <<>>) =>
        response = [status |-> 500,
                    body |-> [detail |-> "Error in ARIMA model: " \o LibraryFailure[1]]]

C4_Witness ==
    /\ Handled
    /\ calls = <<"ARIMA", "fit">>
    /\ response.status = 500
    /\ response.body.detail = "Error in ARIMA model: LU decomposition error."

\* C5: a forecast request with a negative order component, or with steps
\* zero or negative, is answered with a client error (4xx).
C5_InvalidParametersAreClientErrors ==
    (Handled /\ ((\E i \in 1..3 : GivenOrder[i] < 0) \/ GivenSteps <= 0)) =>
        response.status \in 400..499

\* C6: /stats called with an empty list is answered with a client error.
C6_EmptyStatsRejected ==
    (request.path = "/stats" /\ request.body = <<>>) =>
        response.status \in 400..499

\* the rows of a category, their sum and sum of squares, by position
Rows(items, category) == { i \in DOMAIN items : items[i].category = category }

RECURSIVE SumOver(_, _)
SumOver(f, I) ==
    IF I = {} THEN 0
    ELSE LET i == CHOOSE j \in I : TRUE IN f[i] + SumOver(f, I \ {i})

\* the k-th smallest of the values f[i], i in I
KthSmallest(f, I, k) ==
    CHOOSE x \in { f[i] : i \in I } :
        /\ Cardinality({ i \in I : f[i] < x }) < k
        /\ k <= Cardinality({ i \in I : f[i] <= x })

\* q is the fraction a/b
IsFraction(q, a, b) == q.den > 0 /\ q.num * b = a * q.den

\* q is the median of the values f[i], i in I (I not empty)
IsMedian(q, f, I) ==
    LET n == Cardinality(I) IN
    IF n % 2 = 1 THEN IsFraction(q, KthSmallest(f, I, (n + 1) \div 2), 1)
    ELSE IsFraction(q, KthSmallest(f, I, n \div 2) + KthSmallest(f, I, n \div 2 + 1), 2)

\* C7: for a non-empty list of items, analyze_data answers one entry per
\* distinct category; its count is the number of items of that category and
\* its sum, mean, median and std are the reductions over the values of those
\* items only; the counts add up to the number of items.
C7_GroupedAnalysis ==
    (request.path = "/analyze" /\ request.body # <<>> /\ response # NoResponse) =>
        LET items == request.body
            value == [i \in DOMAIN items |-> items[i].value]
            square == [i \in DOMAIN items |-> items[i].value * items[i].value]
            labels == { items[i].category : i \in DOMAIN items }
        IN  /\ response.status = 200
            /\ DOMAIN response.body.analysis = labels
            /\ \A c \in labels :
                  LET got == response.body.analysis[c]
                      I == Rows(items, c)
                      n == Cardinality(I)
                      sum == SumOver(value, I)
                  IN  /\ got.count = n
                      /\ got.sum = sum
                      /\ IsFraction(got.mean, sum, n)
                      /\ IsMedian(got.median, value, I)
                      /\ IsFraction(got.std.radicand,
                                    n * SumOver(square, I) - sum * sum, n * n)
            /\ SumOver([c \in labels |-> response.body.analysis[c].count], labels)
                  = Len(items)

C7_Witness ==
    /\ request.path = "/analyze"
    /\ request.body = TestItems
    /\ response.status = 200
    /\ response.body.analysis["A"].count = 2
    /\ response.body.analysis["B"].count = 1
    /\ response.body.analysis["A"].mean = [num |-> 15, den |-> 1]

\* C8: for a non-empty list of values, calculate_stats answers count = the
\* length, mean = the sum over the length, median = the middle of the sorted
\* values (the mean of the two middle ones for an even length); [1,2,3,4,5]
\* gives mean 3, median 3, count 5.
C8_DescriptiveStats ==
    (request.path = "/stats" /\ request.body # <<>> /\ response # NoResponse) =>
        LET values == request.body
            I == DOMAIN values
        IN  /\ response.status = 200
            /\ response.body.count = Len(values)
            /\ IsFraction(response.body.mean, SumOver(values, I), Len(values))
            /\ IsMedian(response.body.median, values, I)
            /\ values = <<1, 2, 3, 4, 5>> =>
                  /\ response.body.mean = [num |-> 3, den |-> 1]
                  /\ response.body.median = [num |-> 3, den |-> 1]
                  /\ response.body.count = 5

C8_Witness ==
    /\ request.path = "/stats"
    /\ request.body = <<1, 2, 3, 4, 5>>
    /\ response.status = 200
    /\ response.body.median = [num |-> 3, den |-> 1]

\* two responses are the same
SameResponse(a, b) == a.status = b.status /\ a.body = b.body

\* exchange e is a forecast request that reached forecast_arima
ForecastExchange(e) ==
    e.request.path = "/forecast/arima" /\ WellFormed(e.request.body)

\* the values, order and steps of a forecast request, the order and steps
\* left out being (1, 1, 1) and 10
OrderOf(raw) == IF raw.order = <<>> THEN <<1, 1, 1>> ELSE raw.order[1]

StepsOf(raw) == IF raw.steps = <<>> THEN 10 ELSE raw.steps[1]

SameForecastRequest(a, b) ==
    /\ a.values = b.values
    /\ OrderOf(a) = OrderOf(b)
    /\ StepsOf(a) = StepsOf(b)

\* C9: two forecast requests with the same values, order and steps get the
\* same response (same status, same forecast), whatever requests to any
\* endpoint were answered before them or between them.
C9_ForecastDeterminism ==
    \A i, j \in DOMAIN log :
        ( /\ ForecastExchange(log[i])
          /\ ForecastExchange(log[j])
          /\ SameForecastRequest(log[i].request.body, log[j].request.body) ) =>
            SameResponse(log[i].response, log[j].response)

\* two successful forecasts of the same series, order and steps, the first
\* leaving the order and steps out and the second giving them, with a
\* forecast request of another order, which reached the library and was
\* refused, between them
C9_Witness ==
    /\ Len(log) = 3
    /\ ForecastExchange(log[1])
    /\ ForecastExchange(log[2])
    /\ ForecastExchange(log[3])
    /\ log[1].request.body.order = <<>>
    /\ log[1].request.body.steps = <<>>
    /\ log[3].request.body.order = << <<1, 1, 1>> >>
    /\ log[3].request.body.steps = <<10>>
    /\ SameForecastRequest(log[1].request.body, log[3].request.body)
    /\ log[2].request.body.order = << <<-1, 0, 0>> >>
    /\ Len(log[2].request.body.values) = 10
    /\ log[1].response.status = 200
    /\ log[2].response.status = 500
    /\ log[3].response.status = 200
    /\ Len(log[3].response.body.forecast) = 10

\* C10: for a forecast request with fewer than 10 values the library is
\* never called (no model is built, fitted or asked to forecast) and the
\* rejection is not re-reported as a 500.
C10_CheckBeforeNumericalWork ==
    (Handled /\ Len(request.body.values) < 10) =>
        /\ calls = <<>>
        /\ \A key \in DOMAIN lib : Len(key[1]) >= 10
        /\ response.status # 500

C10_Witness ==
    /\ Handled
    /\ Len(request.body.values) = 9
    /\ request.body.order = <<>>
    /\ calls = <<>>
    /\ response.status = 400

====
